---------------------------- MODULE Spec2Model ----------------------------
(***************************************************************************)
(* Model of runalyze.py: the command line uploader for Runalyze.           *)
(*                                                                         *)
(* State: the configuration file at the resolved config path, the system  *)
(* clipboard, and the position of the current invocation of main() with   *)
(* its parsed arguments, its token, its exit code and the I/O it did.     *)
(* Text (tokens, file contents) is a sequence of one-character strings.   *)
(***************************************************************************)
EXTENDS Integers, Sequences, FiniteSets, TLC

\* ------------------------------------------------------------------ bounds
MaxFiles == 2

\* ------------------------------------------------------- Python values
\* A Python value that is None or a str of characters (token values).
PyNone == [k |-> "none", s |-> <<>>]
PyStr(s) == [k |-> "str", s |-> s]
\* bool(v): None and the empty string are falsy.
Truthy(v) == v.k = "str" /\ Len(v.s) > 0

\* A field of a server response after dict.get(): None or a str.
RNone == [k |-> "none", s |-> ""]
RStr(x) == [k |-> "str", s |-> x]
RTruthy(v) == v.k = "str" /\ v.s # ""
\* f"{v}": None is formatted as the text None.
Str(v) == IF v.k = "none" THEN "None" ELSE v.s

\* ------------------------------------------------------------- JSON text
QUOTE == "\""
BACKSLASH == "\\"

\* The tokens given with -t: plain, and with characters JSON escapes.
Tokens == {<<"a">>, <<"a", QUOTE>>, <<BACKSLASH>>}

\* json.dumps of a str (py_encode_basestring_ascii): the quote and the
\* backslash are escaped with a backslash, printable ASCII is copied.
\* Faulty variant: every character is copied unescaped.
EscapeNone(c) == <<c>>
EscapeChar(c) == IF c \in {QUOTE, BACKSLASH} THEN <<BACKSLASH, c>> ELSE <<c>>

RECURSIVE EscapeAll(_)
EscapeAll(s) == IF s = <<>> THEN <<>> ELSE EscapeChar(Head(s)) \o EscapeAll(Tail(s))

JsonString(s) == <<QUOTE>> \o EscapeAll(s) \o <<QUOTE>>

\* json.dump({"token": token}, f) with the default separators ", " and ": ".
TokenKey == <<"t", "o", "k", "e", "n">>
DumpToken(token) ==
    <<"{">> \o JsonString(TokenKey) \o <<":", " ">> \o JsonString(token) \o <<"}">>

\* json.load, for the documents that occur here: an object whose members
\* are strings or null, the empty array, a string, null.  Anything else is a
\* JSONDecodeError.  The text is scanned one character at a time; the
\* scanner state holds the mode, the kind of the finished document, the
\* members read so far, the pending key, and the string being read.
Ws == {" "}
NULL == <<"n", "u", "l", "l">>
ScanStart ==
    [mode |-> "start", kind |-> "", items |-> <<>>, key |-> <<>>, cur |-> <<>>,
     ctx |-> "", esc |-> FALSE, n |-> 0]

\* A string or a null is complete: what it was read for decides what follows.
ScanClose(st, v) ==
    IF st.ctx = "top" THEN [st EXCEPT !.mode = "end", !.kind = IF v.k = "none" THEN "null" ELSE "str"]
    ELSE IF st.ctx = "key" THEN [st EXCEPT !.mode = "after_key", !.key = v.s]
    ELSE [st EXCEPT !.mode = "after_val", !.items = Append(st.items, <<st.key, v>>)]

ScanOpen(st, c, ctx) ==
    IF c = QUOTE THEN [st EXCEPT !.mode = "str", !.ctx = ctx, !.cur = <<>>, !.esc = FALSE]
    ELSE IF c = "n" /\ ctx # "key" THEN [st EXCEPT !.mode = "null", !.ctx = ctx, !.n = 1]
    ELSE [st EXCEPT !.mode = "error"]

ScanChar(st, c) ==
    CASE st.mode = "start" ->
            IF c \in Ws THEN st
            ELSE IF c = "{" THEN [st EXCEPT !.mode = "obj_open"]
            ELSE IF c = "[" THEN [st EXCEPT !.mode = "arr_open"]
            ELSE ScanOpen(st, c, "top")
      [] st.mode = "arr_open" ->
            IF c \in Ws THEN st
            ELSE IF c = "]" THEN [st EXCEPT !.mode = "end", !.kind = "list"]
            ELSE [st EXCEPT !.mode = "error"]
      [] st.mode = "obj_open" ->
            IF c \in Ws THEN st
            ELSE IF c = "}" THEN [st EXCEPT !.mode = "end", !.kind = "dict"]
            ELSE ScanOpen(st, c, "key")
      [] st.mode = "after_comma" ->
            IF c \in Ws THEN st ELSE ScanOpen(st, c, "key")
      [] st.mode = "str" ->
            IF st.esc
            THEN IF c \in {QUOTE, BACKSLASH, "/"}
                 THEN [st EXCEPT !.cur = Append(st.cur, c), !.esc = FALSE]
                 ELSE [st EXCEPT !.mode = "error"]
            ELSE IF c = BACKSLASH THEN [st EXCEPT !.esc = TRUE]
            ELSE IF c = QUOTE THEN ScanClose(st, PyStr(st.cur))
            ELSE [st EXCEPT !.cur = Append(st.cur, c)]
      [] st.mode = "null" ->
            IF c # NULL[st.n + 1] THEN [st EXCEPT !.mode = "error"]
            ELSE IF st.n + 1 = Len(NULL) THEN ScanClose(st, PyNone)
            ELSE [st EXCEPT !.n = st.n + 1]
      [] st.mode = "after_key" ->
            IF c \in Ws THEN st
            ELSE IF c = ":" THEN [st EXCEPT !.mode = "after_colon"]
            ELSE [st EXCEPT !.mode = "error"]
      [] st.mode = "after_colon" ->
            IF c \in Ws THEN st ELSE ScanOpen(st, c, "val")
      [] st.mode = "after_val" ->
            IF c \in Ws THEN st
            ELSE IF c = "," THEN [st EXCEPT !.mode = "after_comma"]
            ELSE IF c = "}" THEN [st EXCEPT !.mode = "end", !.kind = "dict"]
            ELSE [st EXCEPT !.mode = "error"]
      [] st.mode = "end" ->
            IF c \in Ws THEN st ELSE [st EXCEPT !.mode = "error"]
      [] OTHER -> st

RECURSIVE Scan(_, _, _)
Scan(s, p, st) == IF p > Len(s) THEN st ELSE Scan(s, p + 1, ScanChar(st, s[p]))

JsonError == [k |-> "error", items |-> <<>>]

\* json.load(f): [k |-> "error" | "list" | "str" | "null" | "dict",
\* items |-> the members of a dict as <<key, value>> pairs].
JsonLoad(s) ==
    LET end == Scan(s, 1, ScanStart)
    IN  IF end.mode = "end" THEN [k |-> end.kind, items |-> end.items] ELSE JsonError

\* dict.get(key): the value of the last member named key, None without one.
RECURSIVE DictGet(_, _)
DictGet(items, key) ==
    IF items = <<>> THEN PyNone
    ELSE LET last_ == items[Len(items)]
         IN  IF last_[1] = key THEN last_[2]
             ELSE DictGet(SubSeq(items, 1, Len(items) - 1), key)

\* ------------------------------------------------------ the environment
ACTIVITY_BASE == "https://runalyze.com/activity/"
SUCCESS == "successfully imported"
QueueIds == {"q1", "q2"}
ActivityIds == {"42"}

\* A response of the server as the code reads it: net is "error" when
\* requests raises a RequestException instead of returning, code is
\* response.status_code, body is what response.json() finds ("dict", "list"
\* for JSON that is no object, "bad" for text that is no JSON), decode is
\* the exception response.json() raises on a bad body (a RequestException
\* in requests >= 2.27, a plain ValueError before), and queue_id, status
\* and activity_id are what .get() returns for these keys of a dict body.
Resp(net, code, body, decode, queue_id, status, activity_id) ==
    [net |-> net, code |-> code, body |-> body, decode |-> decode,
     queue_id |-> queue_id, status |-> status, activity_id |-> activity_id]
Unused == Resp("unused", 0, "", "", RNone, RNone, RNone)
NetError == Resp("error", 0, "", "", RNone, RNone, RNone)
OkCodes == {200, 201}
ErrorCodes == {500}
UndecodableBodies ==
    {Resp("ok", 200, "bad", d, RNone, RNone, RNone) : d \in {"RequestException", "ValueError"}}
        \cup {Resp("ok", 200, "list", "", RNone, RNone, RNone)}
ErrorResponses ==
    {NetError} \cup {Resp("ok", c, "", "", RNone, RNone, RNone) : c \in ErrorCodes}
PostResponses ==
    ErrorResponses \cup UndecodableBodies
        \cup {Resp("ok", c, "dict", "", q, RNone, RNone) :
                c \in OkCodes, q \in {RNone, RStr("")} \cup {RStr(x) : x \in QueueIds}}
GetResponses ==
    ErrorResponses \cup UndecodableBodies
        \cup {Resp("ok", c, "dict", "", RNone, st, RNone) :
                c \in OkCodes, st \in {RNone, RStr("pending")}}
        \cup {Resp("ok", c, "dict", "", RNone, RStr(SUCCESS), a) :
                c \in OkCodes, a \in {RNone} \cup {RStr(x) : x \in ActivityIds}}
\* open(file_path, "rb"): the file opens, does not exist, or is a directory.
OpenOutcomes == {"ok", "FileNotFoundError", "IsADirectoryError"}
\* pyperclip.copy: copies, or raises PyperclipException without a backend.
CopyOutcomes == {"ok", "PyperclipException"}
Env(open, post, get, copy) == [open |-> open, post |-> post, get |-> get, copy |-> copy]
NoEnv == Env("unused", Unused, Unused, "unused")

\* One I/O operation of the process.
Event(op, file, tok, q, url) == [op |-> op, file |-> file, token |-> tok, q |-> q, url |-> url]
NoUrl == <<>>
\* What a routine did: its I/O in order, the lines it printed, the new
\* clipboard content, and the exception that leaves it ("none" on return).
Effect(io, out, clip, exc) == [io |-> io, out |-> out, clip |-> clip, exc |-> exc]

IsOk(resp) == resp.code = 200 \/ resp.code = 201

\* ------------------------------------------------------------ the routines
\* Lines 10-24.  exit is 1 after exit(1), -1 on return.
load_token(config, silent) ==
    IF ~config.exists
    THEN [exit |-> 1, token |-> PyNone, exc |-> "none",
          out |-> <<<<"Configuration file not found">>, <<"Please create the configuration file">>>>]
    ELSE LET doc == JsonLoad(config.text)
             loaded == IF silent THEN <<>> ELSE <<<<"Token loaded">>>>
         IN  IF doc.k = "error"
             THEN [exit |-> 1, token |-> PyNone, exc |-> "none",
                   out |-> <<<<"Configuration file is not valid JSON">>>>]
             ELSE IF doc.k = "dict"
             THEN [exit |-> -1, token |-> DictGet(doc.items, TokenKey), exc |-> "none",
                   out |-> loaded]
             ELSE [exit |-> -1, token |-> PyNone, exc |-> "AttributeError", out |-> loaded]

\* Lines 26-33: the file after save_token (written whole, not merged).
save_token(token) == [exists |-> TRUE, text |-> DumpToken(token.s)]

\* Line 146: the token given with -t is saved when no config file exists.
\* Faulty variant: the token is saved over an existing file too.
must_save_always(config) == TRUE
must_save(config) == ~config.exists

\* Lines 51-52.
\* Faulty variant: the URL is built from another field.
activity_url_of_status(verification_data) == <<ACTIVITY_BASE, Str(verification_data.status)>>
activity_url(verification_data) == <<ACTIVITY_BASE, Str(verification_data.activity_id)>>

\* Line 59.
\* Faulty variant: the message is suppressed in silent mode.
verification_failed_unless_silent(verification_data, silent) ==
    IF silent THEN <<>> ELSE <<<<"Verification failed. Status: ", Str(verification_data.status)>>>>
verification_failed(verification_data, silent) ==
    <<<<"Verification failed. Status: ", Str(verification_data.status)>>>>

\* Lines 35-64.
verify_upload(queue_id, token, silent, clipboard, env) ==
    LET r == env.get
        get == <<Event("GET", 0, token, Str(queue_id), NoUrl)>>
        hello == IF silent THEN <<>> ELSE <<<<"Verifying upload with queue_id: ", Str(queue_id)>>>>
        url == activity_url(r)
    IN  IF r.net = "error"
        THEN Effect(get, hello \o <<<<"An error occurred during verification">>>>, clipboard, "none")
        ELSE IF ~IsOk(r)
        THEN Effect(get, hello \o <<<<"Failed to verify upload. HTTP Status Code">>, <<"Response">>>>,
                    clipboard, "none")
        ELSE IF r.body = "bad"
        THEN IF r.decode = "RequestException"
             THEN Effect(get, hello \o <<<<"An error occurred during verification">>>>,
                         clipboard, "none")
             ELSE Effect(get, hello, clipboard, "ValueError")
        ELSE IF r.body = "list"
        THEN Effect(get, hello, clipboard, "AttributeError")
        ELSE IF r.status = RStr(SUCCESS)
        THEN LET shown == IF silent THEN <<>> ELSE <<url>>
                 copy == <<Event("COPY", 0, PyNone, "", url)>>
             IN  IF env.copy = "ok"
                 THEN Effect(get \o copy, hello \o shown, url, "none")
                 ELSE Effect(get \o copy, hello \o shown, clipboard, env.copy)
        ELSE Effect(get, hello \o verification_failed(r, silent), clipboard, "none")

\* Lines 93-97: the hand-off from the upload response to the verifier.
\* Faulty variant: the verifier is called whatever queue_id is.
hand_off_always(file, upload_data, token, silent, clipboard, env) ==
    verify_upload(upload_data.queue_id, token, silent, clipboard, env)
hand_off(file, upload_data, token, silent, clipboard, env) ==
    IF RTruthy(upload_data.queue_id)
    THEN verify_upload(upload_data.queue_id, token, silent, clipboard, env)
    ELSE Effect(<<>>, <<<<"No queue_id returned. Unable to verify upload.">>>>, clipboard, "none")

\* Sequencing: b's effect after a's.
Then(a, b) == Effect(a.io \o b.io, a.out \o b.out, b.clip, b.exc)

\* Lines 76-106: upload_file past the dry-run test.
upload(file, token, silent, clipboard, env) ==
    LET r == env.post
        open == <<Event("OPEN", file, PyNone, "", NoUrl)>>
        post == open \o <<Event("POST", file, token, "", NoUrl)>>
        done == IF silent THEN <<>> ELSE <<<<"Successfully uploaded">>, <<"Response">>>>
    IN  IF env.open = "FileNotFoundError"
        THEN Effect(open, <<<<"Error: File not found">>>>, clipboard, "none")
        ELSE IF env.open # "ok"
        THEN Effect(open, <<>>, clipboard, env.open)
        ELSE IF r.net = "error"
        THEN Effect(post, <<<<"An error occurred">>>>, clipboard, "none")
        ELSE IF ~IsOk(r)
        THEN Effect(post, <<<<"Failed to upload. HTTP Status Code">>>>
                            \o (IF silent THEN <<>> ELSE <<<<"Response">>>>), clipboard, "none")
        ELSE IF r.body = "bad"
        THEN IF r.decode = "RequestException"
             THEN Effect(post, <<<<"An error occurred">>>>, clipboard, "none")
             ELSE Effect(post, <<>>, clipboard, "ValueError")
        ELSE IF r.body = "list"
        THEN Effect(post, done, clipboard, "AttributeError")
        ELSE Then(Effect(post, done, clipboard, "none"),
                  hand_off(file, r, token, silent, clipboard, env))

\* Lines 66-106.
\* Faulty variant: the dry-run return is missing.
upload_file_ignoring_dryrun(file, token, dryrun, silent, clipboard, env) ==
    Then(Effect(<<>>, IF silent THEN <<>> ELSE <<<<"Uploading file">>>>, clipboard, "none"),
         upload(file, token, silent, clipboard, env))
upload_file(file, token, dryrun, silent, clipboard, env) ==
    LET hello == Effect(<<>>, IF silent THEN <<>> ELSE <<<<"Uploading file">>>>, clipboard, "none")
    IN  IF dryrun THEN hello ELSE Then(hello, upload(file, token, silent, clipboard, env))

\* ---------------------------------------------------------------- state
VARIABLES
    config,     \* the file at the config path: [exists, text]
    clipboard,  \* the clipboard content: an activity URL, or NoUrl
    saved,      \* the token the latest invocation with -t saved, or PyNone
    pc,         \* "idle", "token" (line 144), "main" (line 156),
                \* "loop" (line 166), "upload" (line 167), "done"
    args,       \* the parsed arguments of the invocation
    token,      \* the resolved credential
    i,          \* the index in args.files of the file the loop is at
    exitcode,   \* the exit status once pc = "done", -1 before
    last,       \* the step just taken and what the environment answered
    io,         \* the I/O of the step just taken, in order
    out         \* the lines the step just taken printed

vars == <<config, clipboard, saved, pc, args, token, i, exitcode, last, io, out>>

Missing == [exists |-> FALSE, text |-> <<>>]
File(text) == [exists |-> TRUE, text |-> text]
\* Config files found on disk: none, truncated JSON, JSON that is no
\* object, an object without token, a null, an empty and a usable token.
ConfigFiles ==
    { Missing,
      File(<<"{", QUOTE, "t">>),
      File(<<"[", "]">>),
      File(<<"{", "}">>),
      File(<<"{">> \o JsonString(TokenKey) \o <<":", " ", "n", "u", "l", "l", "}">>),
      File(DumpToken(<<>>)),
      File(DumpToken(<<"b">>)) }

\* argparse: -t and -V are None when absent and any string when given.
TokenArgs == {PyNone, PyStr(<<>>)} \cup {PyStr(t) : t \in Tokens}
VerifyArgs == {RNone, RStr(""), RStr("q1")}
Args ==
    [token : TokenArgs, verify : VerifyArgs, files : 0..MaxFiles,
     dryrun : BOOLEAN, silent : BOOLEAN]
NoArgs == [token |-> PyNone, verify |-> RNone, files |-> 0, dryrun |-> FALSE, silent |-> FALSE]

Used(e, op) == \E n \in 1..Len(e.io) : e.io[n].op = op
\* The step taken, with the answers to the operations it made.
Step(op, env) == [op |-> op, env |-> env]

\* What the environment can answer to a routine: one answer for each
\* operation the routine gets to make, drawn when it makes it, "unused" for
\* the rest.
VerifyAnswers(queue_id, tok, silent, clip) ==
    LET got == UNION {IF Used(verify_upload(queue_id, tok, silent, clip, v), "GET")
                      THEN {[v EXCEPT !.get = r] : r \in GetResponses} ELSE {v} : v \in {NoEnv}}
    IN  UNION {IF Used(verify_upload(queue_id, tok, silent, clip, v), "COPY")
               THEN {[v EXCEPT !.copy = c] : c \in CopyOutcomes} ELSE {v} : v \in got}
UploadAnswers(file, tok, dryrun, silent, clip) ==
    LET opened == UNION {IF Used(upload_file(file, tok, dryrun, silent, clip, v), "OPEN")
                         THEN {[v EXCEPT !.open = o] : o \in OpenOutcomes} ELSE {v} : v \in {NoEnv}}
        posted == UNION {IF Used(upload_file(file, tok, dryrun, silent, clip, v), "POST")
                         THEN {[v EXCEPT !.post = r] : r \in PostResponses} ELSE {v} : v \in opened}
        got == UNION {IF Used(upload_file(file, tok, dryrun, silent, clip, v), "GET")
                      THEN {[v EXCEPT !.get = r] : r \in GetResponses} ELSE {v} : v \in posted}
    IN  UNION {IF Used(upload_file(file, tok, dryrun, silent, clip, v), "COPY")
               THEN {[v EXCEPT !.copy = c] : c \in CopyOutcomes} ELSE {v} : v \in got}

Init ==
    /\ config \in ConfigFiles
    /\ clipboard = NoUrl
    /\ saved = PyNone
    /\ pc = "idle"
    /\ args = NoArgs
    /\ token = PyNone
    /\ i = 0
    /\ exitcode = -1
    /\ last = Step("none", NoEnv)
    /\ io = <<>>
    /\ out = <<>>

\* Lines 108-141: the process starts and parses its command line.
Invoke ==
    /\ pc = "idle"
    /\ \E a \in Args : args' = a
    /\ pc' = "token"
    /\ last' = Step("invoke", NoEnv)
    /\ UNCHANGED <<config, clipboard, saved, token, i, exitcode, io, out>>

\* Lines 143-149: the credential is resolved.
HandleToken ==
    /\ pc = "token"
    /\ last' = Step("token", NoEnv)
    /\ IF Truthy(args.token)
       THEN /\ token' = args.token
            /\ IF must_save(config)
               THEN /\ config' = save_token(args.token)
                    /\ saved' = args.token
                    /\ io' = <<Event("WRITE", 0, args.token, "", NoUrl)>>
                    /\ out' = IF args.silent THEN <<>> ELSE <<<<"Token saved">>>>
               ELSE /\ io' = <<>>
                    /\ out' = <<>>
                    /\ saved' = PyNone
                    /\ UNCHANGED config
            /\ pc' = "main"
            /\ UNCHANGED exitcode
       ELSE LET r == load_token(config, args.silent)
            IN  /\ token' = r.token
                /\ io' = <<>>
                /\ out' = r.out
                /\ IF r.exit = 1 \/ r.exc # "none"
                   THEN pc' = "done" /\ exitcode' = 1
                   ELSE pc' = "main" /\ UNCHANGED exitcode
                /\ UNCHANGED <<config, saved>>
    /\ UNCHANGED <<clipboard, args, i>>

\* Lines 155-158: -V verifies one queue id and exits; an exception that
\* leaves verify_upload ends the process with status 1.
StandaloneVerify ==
    /\ pc = "main"
    /\ RTruthy(args.verify)
    /\ \E env \in VerifyAnswers(args.verify, token, args.silent, clipboard) :
        LET e == verify_upload(args.verify, token, args.silent, clipboard, env)
        IN  /\ last' = Step("verify", env)
            /\ io' = e.io
            /\ out' = e.out
            /\ clipboard' = e.clip
            /\ exitcode' = IF e.exc = "none" THEN 0 ELSE 1
    /\ pc' = "done"
    /\ UNCHANGED <<config, saved, args, token, i>>

\* Lines 160-163: without files there is nothing to do.
ValidateFiles ==
    /\ pc = "main"
    /\ ~RTruthy(args.verify)
    /\ last' = Step("files", NoEnv)
    /\ io' = <<>>
    /\ IF args.files = 0
       THEN /\ out' = <<<<"No files specified for upload. Use -h for help.">>>>
            /\ pc' = "done"
            /\ exitcode' = 1
       ELSE /\ out' = <<>>
            /\ pc' = "loop"
            /\ UNCHANGED exitcode
    /\ UNCHANGED <<config, clipboard, saved, args, token, i>>

\* Line 166: the loop takes the next file, or ends; then main returns and
\* the interpreter exits with status 0.
NextFile ==
    /\ pc = "loop"
    /\ last' = Step("for", NoEnv)
    /\ io' = <<>>
    /\ out' = <<>>
    /\ IF i < args.files
       THEN /\ i' = i + 1
            /\ pc' = "upload"
            /\ UNCHANGED exitcode
       ELSE /\ pc' = "done"
            /\ exitcode' = 0
            /\ UNCHANGED i
    /\ UNCHANGED <<config, clipboard, saved, args, token>>

\* Line 167: the whole of upload_file for file i.  An exception that
\* leaves upload_file ends the process with status 1.
UploadFile ==
    /\ pc = "upload"
    /\ \E env \in UploadAnswers(i, token, args.dryrun, args.silent, clipboard) :
        LET e == upload_file(i, token, args.dryrun, args.silent, clipboard, env)
        IN  /\ last' = Step("upload", env)
            /\ io' = e.io
            /\ out' = e.out
            /\ clipboard' = e.clip
            /\ IF e.exc = "none"
               THEN pc' = "loop" /\ UNCHANGED exitcode
               ELSE pc' = "done" /\ exitcode' = 1
    /\ UNCHANGED <<config, saved, args, token, i>>

\* The process is gone; the config file and the clipboard remain.
Exit ==
    /\ pc = "done"
    /\ pc' = "idle"
    /\ args' = NoArgs
    /\ token' = PyNone
    /\ i' = 0
    /\ exitcode' = -1
    /\ last' = Step("none", NoEnv)
    /\ io' = <<>>
    /\ out' = <<>>
    /\ UNCHANGED <<config, clipboard, saved>>

Next ==
    \/ Invoke
    \/ HandleToken
    \/ StandaloneVerify
    \/ ValidateFiles
    \/ NextFile
    \/ UploadFile
    \/ Exit

Spec == Init /\ [][Next]_vars

\* --------------------------------------------------------------- claims
\* Vocabulary of the claims, stated on the observable state.
Ops(seq, kinds) == {n \in 1..Len(seq) : seq[n].op \in kinds}
Requests == Ops(io, {"POST", "GET"})
\* The credential was resolved: main got past line 149.
Resolved == pc \in {"main", "loop", "upload"} \/ (pc = "done" /\ last.op # "token")
NoToken == ~Truthy(args.token)
Is2xx(r) == r.net = "ok" /\ r.code \in {200, 201}
SuccessfullyImported(r) ==
    Is2xx(r) /\ r.body = "dict" /\ r.status = RStr("successfully imported")
FailureLine(r) == <<"Verification failed. Status: ", Str(r.status)>>
Printed(line) == \E n \in 1..Len(out) : out[n] = line
UrlOf(a) == <<"https://runalyze.com/activity/", a>>
TokenRecord(t) == [k |-> "dict", items |-> <<<<TokenKey, t>>>>]

\* C1: a token given with -t where no config file exists is persisted so
\* that the file's token field is exactly that token, and a later
\* invocation without -t resolves its credential to exactly that token.
C1_TokenRoundTrip ==
    [][ /\ (pc = "token" /\ Truthy(args.token) /\ ~config.exists)
            => /\ config'.exists
               /\ JsonLoad(config'.text).k = "dict"
               /\ DictGet(JsonLoad(config'.text).items, TokenKey) = args.token
               /\ saved' = args.token
        /\ (pc = "token" /\ NoToken /\ Truthy(saved))
            => (pc' = "main" /\ token' = saved) ]_vars
\* An invocation without -t has read back a token with escaped characters
\* that an earlier invocation saved.
C1_Witness ==
    /\ last.op = "token"
    /\ args.token = PyNone
    /\ saved = PyStr(<<"a", QUOTE>>)
    /\ token = saved
    /\ pc = "main"

\* C2: credential resolution yields a non-empty token or ends the process,
\* and no upload or verification request carries an absent, null or empty
\* token.
C2_ResolverContract ==
    /\ Resolved => Truthy(token)
    /\ \A n \in Requests : Truthy(io[n].token)

\* C3: once the batch loop is entered, every file is handed to the upload,
\* whatever failed for the files before it: the process ends only after the
\* last file.
C3_BatchIsolation ==
    (pc = "done" /\ last.op \in {"upload", "for"}) => i = args.files

\* C4: the process exits 1 exactly when there is no -t and the config file
\* is missing, no -t and the config file is not valid JSON, or the
\* credential resolved and neither --verify nor a file was given; every
\* other invocation exits 0.
C4_ConfigMissing == NoToken /\ ~config.exists
C4_ConfigInvalid == NoToken /\ config.exists /\ JsonLoad(config.text).k = "error"
C4_NothingToDo ==
    /\ ~C4_ConfigMissing
    /\ ~C4_ConfigInvalid
    /\ ~RTruthy(args.verify)
    /\ args.files = 0
C4_ExitCodes ==
    pc = "done" =>
        IF C4_ConfigMissing \/ C4_ConfigInvalid \/ C4_NothingToDo
        THEN exitcode = 1
        ELSE exitcode = 0

\* C5, as stated: with -n, at least one file and a resolved credential, for
\* any combination of the other options, no request is issued, no file is
\* opened, the clipboard is not written, and the process exits 0.
C5_Quiet == Ops(io, {"OPEN", "POST", "GET", "COPY"}) = {}
C5_DryRunAnyOptions ==
    (args.dryrun /\ args.files >= 1 /\ Resolved)
        => (C5_Quiet /\ (pc = "done" => exitcode = 0))
\* C5, amended: the same for every combination of the other options
\* without a queue id given with -V/--verify.
C5_DryRun ==
    (args.dryrun /\ args.files >= 1 /\ ~RTruthy(args.verify) /\ Resolved)
        => (C5_Quiet /\ (pc = "done" => exitcode = 0))
\* A dry run over MaxFiles files has ended.
C5_Witness ==
    /\ args.dryrun
    /\ args.files = MaxFiles
    /\ i = MaxFiles
    /\ pc = "done"
    /\ last.op = "for"
    /\ exitcode = 0

\* C6: the verification requests of one upload_file, and what the claim
\* asks of them when the upload answered queue id q: exactly one GET, for
\* q with the run's token, right after the POST of file i.
C6_Gets == Ops(io, {"GET"})
C6_VerifiedOnce(q) ==
    /\ Cardinality(C6_Gets) = 1
    /\ \A n \in C6_Gets :
        /\ io[n].q = q
        /\ io[n].token = token
        /\ n > 1
        /\ io[n - 1].op = "POST"
        /\ io[n - 1].file = i
\* C6, as stated: an upload answered 200/201 with any present queue_id is
\* verified exactly once with it before the next upload; any other upload is
\* not verified.
C6_HandOffAnyValue ==
    last.op = "upload" =>
        LET r == last.env.post
        IN  IF Is2xx(r) /\ r.body = "dict" /\ r.queue_id.k = "str"
            THEN C6_VerifiedOnce(r.queue_id.s)
            ELSE C6_Gets = {}
\* C6, amended: the same for a queue_id that is present and not empty; an
\* upload answered with an empty queue_id is not verified.
C6_HandOff ==
    last.op = "upload" =>
        LET r == last.env.post
        IN  IF Is2xx(r) /\ r.body = "dict" /\ r.queue_id.k = "str" /\ r.queue_id.s # ""
            THEN C6_VerifiedOnce(r.queue_id.s)
            ELSE C6_Gets = {}
\* The second file's upload was answered 201 with queue id q2 and verified.
C6_Witness ==
    /\ last.op = "upload"
    /\ i = 2
    /\ last.env.post.code = 201
    /\ last.env.post.queue_id = RStr("q2")
    /\ C6_VerifiedOnce("q2")

\* C7: a verification answered 200/201 with status "successfully
\* imported" calls the clipboard copy exactly once, with the activity URL of
\* the answer's activity_id, in silent mode too (only the display of the
\* URL is suppressed); a working clipboard then holds that URL; no other
\* verification calls the copy.
C7_Copies == Ops(io, {"COPY"})
C7_SuccessCopiesUrl ==
    last.op \in {"verify", "upload"} =>
        LET r == last.env.get
        IN  IF SuccessfullyImported(r)
            THEN /\ Cardinality(C7_Copies) = 1
                 /\ r.activity_id.k = "str" =>
                        /\ \A n \in C7_Copies : io[n].url = UrlOf(r.activity_id.s)
                        /\ last.env.copy = "ok" => clipboard = UrlOf(r.activity_id.s)
                        /\ Printed(UrlOf(r.activity_id.s)) = ~args.silent
            ELSE C7_Copies = {}
\* A silent verification after an upload succeeded and copied the URL.
C7_Witness ==
    /\ last.op = "upload"
    /\ args.silent
    /\ last.env.get.code = 200
    /\ SuccessfullyImported(last.env.get)
    /\ last.env.get.activity_id = RStr("42")
    /\ clipboard = UrlOf("42")

\* C8: a verification answered 200/201 with another status (or none), a
\* non-2xx status or a network failure produces no URL and leaves the
\* clipboard unchanged; for the 200/201 case a failure message naming the
\* status is printed, in silent mode too; reached through --verify the
\* process exits 0.
C8_Unsuccessful(r) ==
    \/ r.net = "error"
    \/ r.net = "ok" /\ ~Is2xx(r)
    \/ Is2xx(r) /\ r.body = "dict" /\ r.status # RStr("successfully imported")
C8_UnsuccessfulVerification ==
    [][ C8_Unsuccessful(last'.env.get) =>
            /\ clipboard' = clipboard
            /\ Ops(io', {"COPY"}) = {}
            /\ \A n \in 1..Len(out') : out'[n][1] # "https://runalyze.com/activity/"
            /\ Is2xx(last'.env.get) =>
                    \E n \in 1..Len(out') : out'[n] = FailureLine(last'.env.get)
            /\ last'.op = "verify" => (pc' = "done" /\ exitcode' = 0) ]_vars
\* A silent --verify was answered "pending" with a URL on the clipboard.
C8_Witness ==
    /\ last.op = "verify"
    /\ args.silent
    /\ last.env.get.status = RStr("pending")
    /\ Printed(<<"Verification failed. Status: ", "pending">>)
    /\ clipboard = UrlOf("42")
    /\ exitcode = 0

\* C9: with -V q and a resolved credential exactly one GET for q is issued,
\* no POST is issued, no file is opened, and the process exits 0 without
\* reaching the files check; if the credential is not resolved the process
\* exits 1 before any request.
C9_StandaloneVerify ==
    RTruthy(args.verify) =>
        /\ Ops(io, {"POST", "OPEN"}) = {}
        /\ pc \notin {"loop", "upload"}
        /\ last.op # "files"
        /\ (pc = "done" /\ Resolved) =>
                /\ exitcode = 0
                /\ Cardinality(Ops(io, {"GET"})) = 1
                /\ \A n \in Ops(io, {"GET"}) : io[n].q = args.verify.s
        /\ (pc = "done" /\ ~Resolved) => (exitcode = 1 /\ Requests = {})

\* C10: the config file changes only in the token step of an invocation
\* with -t that finds no config file, and then to a record with the single
\* key token holding that token; the step writes it once.
C10_ConfigWriteDiscipline ==
    [][ /\ config' # config =>
            /\ pc = "token"
            /\ Truthy(args.token)
            /\ ~config.exists
            /\ config'.exists
            /\ JsonLoad(config'.text) = TokenRecord(args.token)
        /\ Cardinality(Ops(io', {"WRITE"})) <= 1
        /\ Ops(io', {"WRITE"}) # {} => config' # config ]_vars
\* A token was saved, and a later invocation with another -t token left
\* the file alone.
C10_Witness ==
    /\ last.op = "token"
    /\ args.token = PyStr(<<BACKSLASH>>)
    /\ saved = PyNone
    /\ config.exists
    /\ JsonLoad(config.text) = TokenRecord(PyStr(<<"a">>))

=============================================================================
